---- MODULE Spec2Model ----
(***************************************************************************)
(* A model of kkjgrep (src/lib.rs): Config::build resolves the command     *)
(* line and the IGNORE_CASE environment variable into a Config, and run    *)
(* reads the file, filters its lines, optionally replaces the query in     *)
(* each kept line and prints it, optionally numbered.                      *)
(*                                                                         *)
(* A Rust String is modelled as a sequence of one-character strings, so    *)
(* that substring search, lowercasing, replacement and line splitting are  *)
(* computed and not assumed.                                               *)
(***************************************************************************)
EXTENDS Integers, Sequences, FiniteSets, TLC

VARIABLES
    args,       \* the process arguments handed to Config::build
    env,        \* the state of the IGNORE_CASE environment variable
    file,       \* the text of the one existing file, ExistingPath
    pc,         \* position of the program: start, built, failed, printing, io_error, done
    err,        \* the error message Config::build returned ("" when none)
    config,     \* <<>> before/without a Config, <<c>> once build returned Ok(c)
    results,    \* the vector of kept lines in run
    i,          \* the enumerate() index of run's loop
    stdout,     \* the lines printed so far
    fsReads     \* how many times the file system was read

vars == <<args, env, file, pc, err, config, results, i, stdout, fsReads>>

----------------------------------------------------------------------------
(* Bounds of the model *)

\* the longest flag list (arguments after the file path) Spec explores
MaxFlags == 3

\* the longest file text SpecSearch explores
MaxLen == 4

----------------------------------------------------------------------------
(* Strings *)

NL == "\n"
CR == "\r"

Str1(c) == <<c>>

FlagS == <<"-", "s">>
FlagCaseSensitive ==
    <<"-", "-", "c", "a", "s", "e", "-", "s", "e", "n", "s", "i", "t", "i", "v", "e">>
FlagI == <<"-", "i">>
FlagIgnoreCase == <<"-", "-", "i", "g", "n", "o", "r", "e", "-", "c", "a", "s", "e">>
FlagN == <<"-", "n">>
FlagLineNumber == <<"-", "-", "l", "i", "n", "e", "-", "n", "u", "m", "b", "e", "r">>
FlagR == <<"-", "r">>
FlagReplace == <<"-", "-", "r", "e", "p", "l", "a", "c", "e">>

ErrQuery == "Didn't get a query string"
ErrFilePath == "Didn't get a file path"

\* the tail of a sequence from its (1-based) index k on
Drop(s, k) == SubSeq(s, k, Len(s))

\* str::contains: the needle occurs at some byte offset of the haystack
Contains(hay, needle) ==
    \E p \in 0..(Len(hay) - Len(needle)) : SubSeq(hay, p + 1, p + Len(needle)) = needle

\* char::to_lowercase on the letters of the model's alphabet
LowerChar(c) ==
    CASE c = "A" -> "a"
      [] c = "B" -> "b"
      [] OTHER -> c

\* str::to_lowercase
to_lowercase(s) == [k \in 1..Len(s) |-> LowerChar(s[k])]

----------------------------------------------------------------------------
(* The environment: the result of env::var("IGNORE_CASE") *)

EnvNotPresent == [kind |-> "NotPresent", val |-> <<>>]
EnvNotUnicode == [kind |-> "NotUnicode", val |-> <<>>]
EnvOk(v) == [kind |-> "Ok", val |-> v]

----------------------------------------------------------------------------
(* Config::build and its flag scans *)

find_case_sensitive(flags) ==
    \E k \in 1..Len(flags) : flags[k] = FlagS \/ flags[k] = FlagCaseSensitive

find_ignore_case_mutC2(flags, e) ==
    \E k \in 1..Len(flags) : flags[k] = FlagI \/ flags[k] = FlagIgnoreCase

find_ignore_case_mutC3(flags, e) ==
    IF e.kind = "Ok"
    THEN e.val = Str1("1")
    ELSE FALSE

find_ignore_case(flags, e) ==
    IF e.kind = "Ok"
    THEN e.val = Str1("1")
    ELSE \E k \in 1..Len(flags) : flags[k] = FlagI \/ flags[k] = FlagIgnoreCase

find_line_number(flags) ==
    \E k \in 1..Len(flags) : flags[k] = FlagN \/ flags[k] = FlagLineNumber

\* Iterator::position: the 0-based index of the first element satisfying the
\* predicate, -1 standing for None
RECURSIVE position_replace(_, _)
position_replace(flags, k) ==
    IF k >= Len(flags) THEN -1
    ELSE IF flags[k + 1] = FlagR \/ flags[k + 1] = FlagReplace THEN k
    ELSE position_replace(flags, k + 1)

\* the index of the last -r/--replace instead of the first
RECURSIVE rposition_replace(_, _)
rposition_replace(flags, k) ==
    IF k < 0 THEN -1
    ELSE IF flags[k + 1] = FlagR \/ flags[k + 1] = FlagReplace THEN k
    ELSE rposition_replace(flags, k - 1)

find_replace_mutC10(flags) ==
    LET pos == rposition_replace(flags, Len(flags) - 1)
    IN  IF pos >= 0 /\ pos + 1 < Len(flags) THEN flags[pos + 2] ELSE <<>>

find_replace(flags) ==
    LET pos == position_replace(flags, 0)
    IN  IF pos >= 0 /\ pos + 1 < Len(flags) THEN flags[pos + 2] ELSE <<>>

\* the Config literal of build
MakeConfig(query, file_path, case_sensitive, ignore_case, line_number, replace) ==
    [query |-> query, file_path |-> file_path, case_sensitive |-> case_sensitive,
     ignore_case |-> ignore_case, line_number |-> line_number, replace |-> replace]

BuildOk(c) == [err |-> "", config |-> <<c>>]
BuildErr(msg) == [err |-> msg, config |-> <<>>]

\* ignore_case taken from the scan alone, case_sensitive not consulted
build_mutC1(a, e) ==
    IF Len(a) < 2 THEN BuildErr(ErrQuery)
    ELSE IF Len(a) < 3 THEN BuildErr(ErrFilePath)
    ELSE LET flags == Drop(a, 4)
             case_sensitive == find_case_sensitive(flags)
             ignore_case == find_ignore_case(flags, e)
         IN  BuildOk(MakeConfig(a[2], a[3], case_sensitive, ignore_case,
                                find_line_number(flags), find_replace(flags)))

\* the file path looked for before the query
build_mutC4(a, e) ==
    IF Len(a) < 3 THEN BuildErr(ErrFilePath)
    ELSE IF Len(a) < 2 THEN BuildErr(ErrQuery)
    ELSE LET flags == Drop(a, 4)
             case_sensitive == find_case_sensitive(flags)
             ignore_case == ~case_sensitive /\ find_ignore_case(flags, e)
         IN  BuildOk(MakeConfig(a[2], a[3], case_sensitive, ignore_case,
                                find_line_number(flags), find_replace(flags)))

\* the program name not skipped: query and file path taken one position early
build_mutC5(a, e) ==
    IF Len(a) < 1 THEN BuildErr(ErrQuery)
    ELSE IF Len(a) < 2 THEN BuildErr(ErrFilePath)
    ELSE LET flags == Drop(a, 3)
             case_sensitive == find_case_sensitive(flags)
             ignore_case == ~case_sensitive /\ find_ignore_case(flags, e)
         IN  BuildOk(MakeConfig(a[1], a[2], case_sensitive, ignore_case,
                                find_line_number(flags), find_replace(flags)))

\* Config::build: args.next() drops a[1]; a[2] is the query, a[3] the file
\* path, the rest is collected and scanned four times
build(a, e) ==
    IF Len(a) < 2 THEN BuildErr(ErrQuery)
    ELSE IF Len(a) < 3 THEN BuildErr(ErrFilePath)
    ELSE LET flags == Drop(a, 4)
             case_sensitive == find_case_sensitive(flags)
             ignore_case == ~case_sensitive /\ find_ignore_case(flags, e)
         IN  BuildOk(MakeConfig(a[2], a[3], case_sensitive, ignore_case,
                                find_line_number(flags), find_replace(flags)))

----------------------------------------------------------------------------
(* Searching *)

\* the 1-based index of the first "\n" of s at or after index k, 0 when none
RECURSIVE FirstNL(_, _)
FirstNL(s, k) ==
    IF k > Len(s) THEN 0
    ELSE IF s[k] = NL THEN k
    ELSE FirstNL(s, k + 1)

\* strip_suffix('\r')
StripCR(l) ==
    IF Len(l) > 0 /\ l[Len(l)] = CR THEN SubSeq(l, 1, Len(l) - 1) ELSE l

\* str::lines: split after every "\n"; a piece that ends in "\n" loses it and
\* then one "\r" before it; a last piece without "\n" is kept as it is; no
\* empty piece follows a final "\n"
RECURSIVE lines(_)
lines(s) ==
    IF s = <<>> THEN <<>>
    ELSE LET nl == FirstNL(s, 1)
         IN  IF nl = 0 THEN <<s>>
             ELSE <<StripCR(SubSeq(s, 1, nl - 1))>> \o lines(Drop(s, nl + 1))

\* both sides lowercased before the containment test
search_mutC6(query, contents) ==
    SelectSeq(lines(contents), LAMBDA line : Contains(to_lowercase(line), to_lowercase(query)))

search(query, contents) ==
    SelectSeq(lines(contents), LAMBDA line : Contains(line, query))

\* the query not lowercased
search_case_insensitive_mutC7(query, contents) ==
    SelectSeq(lines(contents), LAMBDA line : Contains(to_lowercase(line), query))

search_case_insensitive(query, contents) ==
    LET q == to_lowercase(query)
    IN  SelectSeq(lines(contents), LAMBDA line : Contains(to_lowercase(line), q))

search_based_on_case(c, contents) ==
    IF c.ignore_case
    THEN search_case_insensitive(c.query, contents)
    ELSE search(c.query, contents)

----------------------------------------------------------------------------
(* Replacing and printing *)

\* str::replace from byte offset p on: the matches of the query are taken
\* left to right, each starting where the previous one ended; the empty query
\* matches once at every offset 0..Len(line)
RECURSIVE replace_from(_, _, _, _)
replace_from(query, to, line, p) ==
    LET here == IF p < Len(line) THEN <<line[p + 1]>> ELSE <<>>
    IN  IF p > Len(line) THEN <<>>
        ELSE IF p + Len(query) <= Len(line) /\ SubSeq(line, p + 1, p + Len(query)) = query
        THEN IF query = <<>>
             THEN to \o here \o replace_from(query, to, line, p + 1)
             ELSE to \o replace_from(query, to, line, p + Len(query))
        ELSE here \o replace_from(query, to, line, p + 1)

replace(query, to, contents) == replace_from(query, to, contents, 0)

\* the replacement applied whatever config.replace is
replace_if_not_empty_mutC9(c, line) == replace(c.query, c.replace, line)

replace_if_not_empty(c, line) ==
    IF c.replace # <<>>
    THEN replace(c.query, c.replace, line)
    ELSE line

Digit(d) == <<"0", "1", "2", "3", "4", "5", "6", "7", "8", "9">>[d + 1]

\* Display of a usize
RECURSIVE ToDecimal(_)
ToDecimal(n) ==
    IF n < 10 THEN <<Digit(n)>>
    ELSE ToDecimal(n \div 10) \o <<Digit(n % 10)>>

\* the index printed as it is, not plus one
print_based_on_line_number_mutC8(c, idx, line) ==
    IF c.line_number
    THEN ToDecimal(idx) \o <<":", " ">> \o line
    ELSE line

\* the text println! writes, without its line terminator
print_based_on_line_number(c, idx, line) ==
    IF c.line_number
    THEN ToDecimal(idx + 1) \o <<":", " ">> \o line
    ELSE line

----------------------------------------------------------------------------
(* The program *)

ProgName == <<"k">>

\* the path of the one file that exists; reading any other path fails
ExistingPath == <<"f">>

\* Config::build(args): Ok(config) or Err(message)
Build ==
    /\ pc = "start"
    /\ LET r == build(args, env)
       IN  /\ err' = r.err
           /\ config' = r.config
           /\ pc' = IF r.config = <<>> THEN "failed" ELSE "built"
    /\ UNCHANGED <<args, env, file, results, i, stdout, fsReads>>

\* run, up to the loop: fs::read_to_string(&config.file_path)? and
\* search_based_on_case
RunRead ==
    /\ pc = "built"
    /\ fsReads' = fsReads + 1
    /\ IF config[1].file_path = ExistingPath
       THEN /\ results' = search_based_on_case(config[1], file)
            /\ pc' = "printing"
       ELSE /\ results' = results
            /\ pc' = "io_error"
    /\ UNCHANGED <<args, env, file, err, config, i, stdout>>

\* one iteration of for (i, line) in results.iter().enumerate()
RunPrint ==
    /\ pc = "printing"
    /\ i < Len(results)
    /\ stdout' = Append(stdout,
           print_based_on_line_number(config[1], i,
               replace_if_not_empty(config[1], results[i + 1])))
    /\ i' = i + 1
    /\ UNCHANGED <<args, env, file, pc, err, config, results, fsReads>>

\* the loop is over: Ok(())
RunReturn ==
    /\ pc = "printing"
    /\ i = Len(results)
    /\ pc' = "done"
    /\ UNCHANGED <<args, env, file, err, config, results, i, stdout, fsReads>>

Next == Build \/ RunRead \/ RunPrint \/ RunReturn

----------------------------------------------------------------------------
(* Inputs *)

SeqsUpTo(S, n) == UNION {[1..m -> S] : m \in 0..n}

FlagTokens ==
    {FlagS, FlagCaseSensitive, FlagI, FlagIgnoreCase, FlagN, FlagLineNumber,
     FlagR, FlagReplace, <<"b">>}

Envs == {EnvNotPresent, EnvNotUnicode, EnvOk(Str1("1")), EnvOk(Str1("0"))}

BuildQueries == {<<>>, <<"a">>}
BuildPaths == {<<>>, ExistingPath}

BuildArgs ==
    {<<>>, <<ProgName>>}
    \cup {<<ProgName, q>> : q \in BuildQueries}
    \cup {<<ProgName, q, p>> \o fl :
             q \in BuildQueries, p \in BuildPaths, fl \in SeqsUpTo(FlagTokens, MaxFlags)}

BuildFile == <<"b", NL, "A", "b", NL, "a", "a">>

Pristine ==
    /\ pc = "start"
    /\ err = ""
    /\ config = <<>>
    /\ results = <<>>
    /\ i = 0
    /\ stdout = <<>>
    /\ fsReads = 0

\* every command line and environment, one file
Init ==
    /\ args \in BuildArgs
    /\ env \in Envs
    /\ file = BuildFile
    /\ Pristine

Spec == Init /\ [][Next]_vars

SearchQueries == {<<>>, <<"a">>, <<"A">>, <<"a", "a">>, <<"a", "b">>}

SearchFlagLists ==
    {<<>>, <<FlagI>>, <<FlagN>>, <<FlagR, <<"b">>>>, <<FlagI, FlagR, <<"b">>>>,
     <<FlagN, FlagR, <<>>>>, <<FlagI, FlagN, FlagR, <<"b", "A">>>>}

Alphabet == {"a", "A", "b", NL, CR}

\* a few command lines, every file text up to MaxLen characters
InitSearch ==
    /\ args \in {<<ProgName, q, ExistingPath>> \o fl :
                    q \in SearchQueries, fl \in SearchFlagLists}
    /\ env = EnvNotPresent
    /\ file \in SeqsUpTo(Alphabet, MaxLen)
    /\ Pristine

SpecSearch == InitSearch /\ [][Next]_vars

----------------------------------------------------------------------------
(* Vocabulary of the properties *)

Built == config # <<>>
Cfg == config[1]

\* some argument after the file path is one of the strings of S
Occurs(S) == \E k \in 4..Len(args) : args[k] \in S

SFlags == {FlagS, FlagCaseSensitive}
IFlags == {FlagI, FlagIgnoreCase}
NFlags == {FlagN, FlagLineNumber}
RFlags == {FlagR, FlagReplace}

\* run is past the search
Searched == pc \in {"printing", "done"}

FileLines == lines(file)

\* the positions in the file of the lines holding the query as it is
SensitiveIdx == {j \in 1..Len(FileLines) : Contains(FileLines[j], Cfg.query)}

\* the positions in the file of the lines whose lowercased form holds the
\* lowercased query
InsensitiveIdx ==
    {j \in 1..Len(FileLines) : Contains(to_lowercase(FileLines[j]), to_lowercase(Cfg.query))}

\* res is the file's lines at the positions M, in file order, each once
IsLinesAt(res, M) ==
    /\ Len(res) = Cardinality(M)
    /\ \A j \in M : res[Cardinality({m \in M : m <= j})] = FileLines[j]

\* the offsets at which q occurs in l
Occ(l, q) == {p \in 0..(Len(l) - Len(q)) : SubSeq(l, p + 1, p + Len(q)) = q}

\* the leftmost-first non-overlapping occurrences: an occurrence is taken
\* exactly when no taken occurrence to its left overlaps it
Taken(l, q) ==
    CHOOSE S \in SUBSET Occ(l, q) :
        \A p \in Occ(l, q) : p \in S <=> ~ \E t \in S : t < p /\ p < t + Len(q)

RECURSIVE Flatten(_)
Flatten(ss) == IF ss = <<>> THEN <<>> ELSE Head(ss) \o Flatten(Tail(ss))

\* l with each taken occurrence of q replaced by r
Replaced(l, q, r) ==
    LET S == Taken(l, q)
        Piece(p) ==
            (IF p \in S THEN r ELSE <<>>)
            \o (IF p < Len(l) /\ ~ \E t \in S : t <= p /\ p < t + Len(q)
                THEN <<l[p + 1]>> ELSE <<>>)
    IN  Flatten([k \in 1..(Len(l) + 1) |-> Piece(k - 1)])

\* the k-th printed line without its number prefix
Body(k) ==
    IF Cfg.line_number THEN Drop(stdout[k], Len(ToDecimal(k)) + 3) ELSE stdout[k]

----------------------------------------------------------------------------
(* Properties *)

\* C1: a Config returned by build never has case_sensitive and ignore_case
\* both true, and whenever -s or --case-sensitive is among the arguments
\* after the file path, ignore_case is false whatever -i and IGNORE_CASE say.
C1_CaseSensitiveWins ==
    Built =>
        /\ ~(Cfg.case_sensitive /\ Cfg.ignore_case)
        /\ Occurs(SFlags) => ~Cfg.ignore_case

C1_Witness ==
    /\ Built
    /\ Occurs(SFlags)
    /\ Occurs(IFlags)
    /\ env = EnvOk(Str1("1"))
    /\ Cfg.case_sensitive
    /\ ~Cfg.ignore_case

\* C2: with IGNORE_CASE set to exactly "1" and no -s/--case-sensitive among
\* the flags, build returns ignore_case = TRUE with or without -i, and run
\* keeps the lines of the case-insensitive search.
C2_EnvOneIgnoresCase ==
    (pc # "start" /\ Len(args) >= 3 /\ env = EnvOk(Str1("1")) /\ ~Occurs(SFlags)) =>
        /\ Built
        /\ Cfg.ignore_case
        /\ (Searched => IsLinesAt(results, InsensitiveIdx))

C2_Witness ==
    /\ pc = "done"
    /\ env = EnvOk(Str1("1"))
    /\ ~Occurs(SFlags)
    /\ ~Occurs(IFlags)
    /\ Cfg.ignore_case
    /\ Cfg.query = <<"a">>
    /\ results = <<<<"A", "b">>, <<"a", "a">>>>

\* C3 as stated: with IGNORE_CASE unset or set to anything but "1",
\* ignore_case is true iff -i/--ignore-case is among the flags and
\* -s/--case-sensitive is not.
C3_AsStated ==
    (Built /\ env # EnvOk(Str1("1"))) =>
        (Cfg.ignore_case <=> (Occurs(IFlags) /\ ~Occurs(SFlags)))

\* C3 as amended: with IGNORE_CASE unset (or not valid Unicode) ignore_case
\* is true iff -i/--ignore-case is among the flags and -s/--case-sensitive
\* is not; with IGNORE_CASE set to a value other than "1" ignore_case is
\* false whatever the flags.
C3_FallbackOnlyWhenUnset ==
    Built =>
        /\ env.kind # "Ok" => (Cfg.ignore_case <=> (Occurs(IFlags) /\ ~Occurs(SFlags)))
        /\ (env.kind = "Ok" /\ env.val # Str1("1")) => ~Cfg.ignore_case

C3_Witness ==
    /\ Built
    /\ env = EnvOk(Str1("0"))
    /\ Occurs(IFlags)
    /\ ~Occurs(SFlags)
    /\ ~Cfg.ignore_case

\* C4: build fails with "Didn't get a query string" when there is no second
\* argument and with "Didn't get a file path" when there is a second but no
\* third; no Config is produced, and nothing is read from the file system or
\* printed before run has a Config, so never after a failed build.
C4_MissingArgument ==
    /\ (pc # "start" /\ Len(args) < 2) =>
           (pc = "failed" /\ err = ErrQuery /\ ~Built)
    /\ (pc # "start" /\ Len(args) = 2) =>
           (pc = "failed" /\ err = ErrFilePath /\ ~Built)
    /\ pc \in {"start", "built", "failed"} => (fsReads = 0 /\ stdout = <<>>)

C4_Witness ==
    /\ pc = "failed"
    /\ Len(args) = 2
    /\ err = ErrFilePath
    /\ fsReads = 0

\* C5 as stated: once build succeeds, query and file_path are non-empty, and
\* build fails whenever the query or file-path position is absent or holds
\* the empty string.
C5_AsStated ==
    /\ Built => (Cfg.query # <<>> /\ Cfg.file_path # <<>>)
    /\ (pc # "start" /\ (Len(args) < 3 \/ args[2] = <<>> \/ args[3] = <<>>)) => ~Built

\* C5 as amended: build succeeds exactly when the query and file-path
\* positions are present, and then query and file_path are the second and
\* third arguments as given, empty or not.
C5_PresentNotNonEmpty ==
    pc # "start" =>
        /\ Built <=> Len(args) >= 3
        /\ Built => (Cfg.query = args[2] /\ Cfg.file_path = args[3])

C5_Witness ==
    /\ Built
    /\ args[2] = <<>>
    /\ Cfg.query = <<>>
    /\ Cfg.file_path = <<>>

\* C6: the case-sensitive search returns exactly the lines of the file that
\* hold the query as a literal, case-exact substring, in file order, none
\* dropped, repeated or moved.
C6_SearchExact ==
    (Searched /\ ~Cfg.ignore_case) => IsLinesAt(results, SensitiveIdx)

C6_Witness ==
    /\ pc = "done"
    /\ ~Cfg.ignore_case
    /\ Cfg.query = <<"a">>
    /\ FileLines = <<<<"A">>, <<"a">>>>
    /\ results = <<<<"a">>>>

\* C7: the case-insensitive search returns exactly the lines whose lowercased
\* form holds the lowercased query, in file order, each as it stands in the
\* file.
C7_SearchInsensitive ==
    (Searched /\ Cfg.ignore_case) => IsLinesAt(results, InsensitiveIdx)

C7_Witness ==
    /\ pc = "done"
    /\ Cfg.ignore_case
    /\ Cfg.query = <<"A">>
    /\ FileLines = <<<<"a">>, <<"A", "b">>>>
    /\ results = FileLines

\* C8: with line_number the k-th printed line is the decimal k, ": " and the
\* k-th kept line after replacement, k being the position among the kept
\* lines; without it the line is printed with no prefix. One line is printed
\* per loop iteration and all kept lines are printed at the end.
C8_NumbersKeptLines ==
    Built =>
        /\ Len(stdout) = i
        /\ i <= Len(results)
        /\ pc = "done" => Len(stdout) = Len(results)
        /\ \A k \in 1..Len(stdout) :
               stdout[k] = (IF Cfg.line_number THEN ToDecimal(k) \o <<":", " ">> ELSE <<>>)
                           \o replace_if_not_empty(Cfg, results[k])

C8_Witness ==
    /\ pc = "done"
    /\ Cfg.line_number
    /\ Len(FileLines) = 3
    /\ Len(results) = 2
    /\ results[1] = FileLines[2]
    /\ stdout[1][1] = "1"
    /\ stdout[2][1] = "2"

\* C9: the printed lines are the kept lines, one for one; with a non-empty
\* replace each is printed with every leftmost-first non-overlapping
\* occurrence of the query, in its given case, replaced, so a kept line that
\* holds the query only in another case is printed as it is; with an empty
\* replace every kept line is printed as it is.
C9_ReplaceKeepsLines ==
    Searched =>
        /\ IsLinesAt(results, IF Cfg.ignore_case THEN InsensitiveIdx ELSE SensitiveIdx)
        /\ Len(stdout) <= Len(results)
        /\ pc = "done" => Len(stdout) = Len(results)
        /\ \A k \in 1..Len(stdout) :
               /\ Cfg.replace # <<>> => Body(k) = Replaced(results[k], Cfg.query, Cfg.replace)
               /\ Cfg.replace = <<>> => Body(k) = results[k]
               /\ ~Contains(results[k], Cfg.query) => Body(k) = results[k]

C9_Witness ==
    /\ pc = "done"
    /\ Cfg.ignore_case
    /\ Cfg.replace = <<"b">>
    /\ Cfg.query = <<"a">>
    /\ results = <<<<"A">>, <<"a", "a">>>>
    /\ stdout = <<<<"A">>, <<"b", "b">>>>

\* C10: replace is the argument right after the first -r/--replace among the
\* flags, and empty when there is none or when that first one is the last
\* argument; the scans are independent, so the argument taken as the replace
\* value still counts as a flag.
C10_FirstReplace ==
    Built =>
        LET fl == Drop(args, 4)
            P == {k \in 1..Len(fl) : fl[k] \in RFlags}
        IN  /\ P = {} => Cfg.replace = <<>>
            /\ P # {} =>
                   LET first == CHOOSE k \in P : \A m \in P : k <= m
                   IN  Cfg.replace = IF first < Len(fl) THEN fl[first + 1] ELSE <<>>
            /\ Cfg.line_number <=> Occurs(NFlags)
            /\ Cfg.case_sensitive <=> Occurs(SFlags)

C10_Witness ==
    /\ Built
    /\ Drop(args, 4) = <<FlagR, FlagN>>
    /\ Cfg.replace = FlagN
    /\ Cfg.line_number

====
